---------------------------- MODULE Spec2Model ----------------------------
(***************************************************************************)
(* Model of the EDI evaluation scoring engine                              *)
(* (Quizz/Form/services.py, EDIEvaluationService) together with the part   *)
(* of EvaluationCreateSerializer.create that builds the Evaluation and its *)
(* Answer rows and then invokes the service.                               *)
(*                                                                         *)
(* One Evaluation is modelled.  Its Answer rows are kept as a bag of       *)
(* records [domain, area, from_previous_group, value_bool]: the fields of  *)
(* Answer and of its Question that the service reads.  The service only    *)
(* filters and counts the answers, so neither the order of the list nor    *)
(* the identity of the questions is observable.                            *)
(***************************************************************************)
EXTENDS Integers, FiniteSets, Sequences, Bags, TLC

(***************************************************************************)
(* Bounds of the model.                                                    *)
(***************************************************************************)
\* Largest number of answers of the evaluation in Spec.
MaxAnswers == 3

\* Largest number of answers of the evaluation in SpecAllAges.
MaxAnswersAllAges == 1

\* Largest age in months in SpecAllAges.
MaxAge == 61

\* Largest number of answers of the evaluation in SpecAreaAnswers.
MaxAreaAnswers == 5

\* Ages of the evaluation in Spec: bands 1, 2, 4, 5, 7, 8 and 15, that is both
\* sides of every band boundary at which the scoring rules change (1|2, 4|5,
\* 7|8) and the last band.
SampleAges == {1, 2, 4, 5, 12, 13, 60}

(***************************************************************************)
(* Enumerations (models.py).                                               *)
(***************************************************************************)
NONE == "NONE"

GREEN == "GREEN"

YELLOW == "YELLOW"

RED == "RED"

NORMAL == "NORMAL"

DELAY == "DELAY"

RISK == "RISK"

AREAS == <<"motriz_gruesa", "motriz_fina", "lenguaje", "social", "conocimiento">>

AreaSet == {AREAS[i] : i \in 1..Len(AREAS)}

DomainCodes == {"NEURO", "ALARM", "ALERT", "BIO"}

\* The areas the submitted answers belong to: the first, the middle and the
\* last area of AREAS.  The other two areas never have an answer.
AnsweredAreas == {AREAS[1], AREAS[3], AREAS[5]}

\* The submitted answers: an answer to an AREA question of an answered area,
\* asked in the current band or in the previous one, or an answer to a NEURO,
\* ALARM, ALERT or BIO question of the current band; value yes or no.
AnswerKinds ==
    [domain : {"AREA"}, area : AnsweredAreas,
     from_previous_group : BOOLEAN, value_bool : BOOLEAN]
    \cup
    [domain : DomainCodes, area : {NONE},
     from_previous_group : {FALSE}, value_bool : BOOLEAN]

(***************************************************************************)
(* State.                                                                  *)
(***************************************************************************)
VARIABLES
    pc,               \* position in EvaluationCreateSerializer.create
    age_in_months,    \* Evaluation.age_in_months
    answers,          \* the Answer rows of the evaluation (a bag)
    svc_answers,      \* EDIEvaluationService.answers (list read in __init__)
    age_group_num,    \* EDIEvaluationService.age_group_num (0: no service yet)
    area_results,     \* EvaluationAreaResult rows of the evaluation
    domain_results,   \* EvaluationDomainResult rows of the evaluation
    summaries,        \* EvaluationSummary rows of the evaluation
    runs,             \* per request: a later EDIEvaluationService and the
                      \* transaction of its calculate_evaluation
    scored_answers,   \* history: the answers read by the run that committed
                      \* the stored results
    submission,       \* the validated data handed to create
    patient,          \* the Patient row of the submission
    evaluation,       \* the Evaluation row: stored, used_corrected_age
    patient_before    \* history: the Patient row before the submission

vars == <<pc, age_in_months, answers, svc_answers, age_group_num,
          area_results, domain_results, summaries, runs, scored_answers,
          submission, patient, evaluation, patient_before>>

\* gestational_weeks of a patient whose weeks are not known: None, which the
\* conditions of create treat like 0.
UnknownWeeks == 0

\* An AgeBand row that holds every modelled age.
WholeRange == [known |-> TRUE, min_months |-> 0, max_months |-> MaxAge]

\* The requests that score the evaluation again after it was created.
Requests == {"r1", "r2"}

\* A request without a service and without a transaction; pc becomes "done"
\* when its calculate_evaluation has returned.
IdleRun ==
    [pc            |-> "idle",
     answers       |-> EmptyBag,
     age_group_num |-> 0,
     del_areas     |-> {},
     ins_areas     |-> {},
     del_domains   |-> {},
     ins_domains   |-> {},
     del_summaries |-> {},
     ins_summaries |-> {},
     error         |-> NONE]

\* len([a for a in answers if ...]): the number of answers of the bag b
\* whose kind is in S.
CountIn(b, S) ==
    BagCardinality([k \in (BagToSet(b) \cap S) |-> b[k]])

(***************************************************************************)
(* EDIEvaluationService.GROUPS_CONFIG                                      *)
(***************************************************************************)
GROUPS_CONFIG ==
    [g \in 1..15 |->
        [questions_per_area |-> IF g <= 7 THEN 2 ELSE 3,
         has_frb            |-> g <= 4,
         has_previous       |-> g >= 2,
         frb_affects_global |-> g <= 4,
         ale_affects_global |-> g <= 4]]

\* self.config: GROUPS_CONFIG.get(age_group_num, default)
Config(g) ==
    IF g \in DOMAIN GROUPS_CONFIG
    THEN GROUPS_CONFIG[g]
    ELSE [questions_per_area |-> 2, has_frb |-> FALSE, has_previous |-> FALSE,
          frb_affects_global |-> FALSE, ale_affects_global |-> FALSE]

(***************************************************************************)
(* EDIEvaluationService._get_age_group_num                                 *)
(***************************************************************************)
\* Variant of _get_age_group_num: the 12-month boundary compared with <.
_get_age_group_num_lt12(months) ==
    IF months <= 1 THEN 1
    ELSE IF months <= 2 THEN 2
    ELSE IF months <= 3 THEN 3
    ELSE IF months <= 4 THEN 4
    ELSE IF months <= 6 THEN 5
    ELSE IF months <= 9 THEN 6
    ELSE IF months < 12 THEN 7
    ELSE IF months <= 15 THEN 8
    ELSE IF months <= 18 THEN 9
    ELSE IF months <= 24 THEN 10
    ELSE IF months <= 30 THEN 11
    ELSE IF months <= 36 THEN 12
    ELSE IF months <= 48 THEN 13
    ELSE IF months <= 59 THEN 14
    ELSE 15

_get_age_group_num(months) ==
    IF months <= 1 THEN 1
    ELSE IF months <= 2 THEN 2
    ELSE IF months <= 3 THEN 3
    ELSE IF months <= 4 THEN 4
    ELSE IF months <= 6 THEN 5
    ELSE IF months <= 9 THEN 6
    ELSE IF months <= 12 THEN 7
    ELSE IF months <= 15 THEN 8
    ELSE IF months <= 18 THEN 9
    ELSE IF months <= 24 THEN 10
    ELSE IF months <= 30 THEN 11
    ELSE IF months <= 36 THEN 12
    ELSE IF months <= 48 THEN 13
    ELSE IF months <= 59 THEN 14
    ELSE 15

(***************************************************************************)
(* EDIEvaluationService._get_area_status                                   *)
(***************************************************************************)
\* Variant of _get_area_status: band 1 scored like bands 2-7.
_get_area_status_no_band1(yes_count, total, g) ==
    IF total = 0 THEN NONE
    ELSE IF 1 <= g /\ g <= 7
         THEN (IF yes_count = total THEN GREEN ELSE YELLOW)
    ELSE (IF yes_count >= 2 THEN GREEN ELSE YELLOW)

\* Variant of _get_area_status: band 7 scored like bands 8-15.
_get_area_status_lt7(yes_count, total, g) ==
    IF total = 0 THEN NONE
    ELSE IF g = 1
         THEN (IF yes_count = total THEN GREEN ELSE RED)
    ELSE IF 2 <= g /\ g < 7
         THEN (IF yes_count = total THEN GREEN ELSE YELLOW)
    ELSE (IF yes_count >= 2 THEN GREEN ELSE YELLOW)

\* Variant of _get_area_status: bands 8-15 need more than 2 "yes".
_get_area_status_gt2(yes_count, total, g) ==
    IF total = 0 THEN NONE
    ELSE IF g = 1
         THEN (IF yes_count = total THEN GREEN ELSE RED)
    ELSE IF 2 <= g /\ g <= 7
         THEN (IF yes_count = total THEN GREEN ELSE YELLOW)
    ELSE (IF yes_count > 2 THEN GREEN ELSE YELLOW)

_get_area_status(yes_count, total, g) ==
    IF total = 0 THEN NONE
    ELSE IF g = 1
         THEN (IF yes_count = total THEN GREEN ELSE RED)
    ELSE IF 2 <= g /\ g <= 7
         THEN (IF yes_count = total THEN GREEN ELSE YELLOW)
    ELSE (IF yes_count >= 2 THEN GREEN ELSE YELLOW)

(***************************************************************************)
(* EDIEvaluationService._calculate_development_areas                       *)
(***************************************************************************)
IsCurrentAnswer(a, area) ==
    a.domain = "AREA" /\ a.area = area /\ ~a.from_previous_group

_calculate_development_areas(ans, g) ==
    LET total(area) == CountIn(ans, {a \in BagToSet(ans) :
                                        IsCurrentAnswer(a, area)})
        yes(area)   == CountIn(ans, {a \in BagToSet(ans) :
                                        IsCurrentAnswer(a, area) /\ a.value_bool})
    IN [status_map |-> [area \in AreaSet |->
                          IF total(area) = 0 THEN NONE
                          ELSE _get_area_status(yes(area), total(area), g)],
        counts_map |-> [area \in AreaSet |->
                          IF total(area) = 0 THEN <<0, 0>>
                          ELSE <<yes(area), total(area)>>]]

(***************************************************************************)
(* EDIEvaluationService._calculate_domains                                 *)
(***************************************************************************)
\* Variant of _count_yes: answers of the previous group are not counted.
_count_yes_current(ans, domain_code) ==
    CountIn(ans, {a \in BagToSet(ans) :
                     a.domain = domain_code /\ a.value_bool
                     /\ ~a.from_previous_group})

_count_yes(ans, domain_code) ==
    CountIn(ans, {a \in BagToSet(ans) :
                     a.domain = domain_code /\ a.value_bool})

\* info[domain]["count"]
DomainCount(domain_code, yes) ==
    IF domain_code = "NEURO" THEN 0 ELSE yes

\* info[domain]["red_flags"]
DomainRedFlags(domain_code, yes) ==
    IF domain_code = "NEURO" THEN yes ELSE 0

\* Variant of DomainStatus: a positive ALERT scored like a positive ALARM.
DomainStatus_alert_red(domain_code, yes) ==
    CASE domain_code = "NEURO" -> (IF yes > 0 THEN RED ELSE GREEN)
      [] domain_code = "ALARM" -> (IF yes > 0 THEN RED ELSE GREEN)
      [] domain_code = "ALERT" -> (IF yes >= 1 THEN RED ELSE GREEN)
      [] domain_code = "BIO"   -> (IF yes > 0 THEN YELLOW ELSE GREEN)

\* info[domain]["status"]
DomainStatus(domain_code, yes) ==
    CASE domain_code = "NEURO" -> (IF yes > 0 THEN RED ELSE GREEN)
      [] domain_code = "ALARM" -> (IF yes > 0 THEN RED ELSE GREEN)
      [] domain_code = "ALERT" -> (IF yes >= 1 THEN YELLOW ELSE GREEN)
      [] domain_code = "BIO"   -> (IF yes > 0 THEN YELLOW ELSE GREEN)

_calculate_domains(ans) ==
    [d \in DomainCodes |->
        [count     |-> DomainCount(d, _count_yes(ans, d)),
         red_flags |-> DomainRedFlags(d, _count_yes(ans, d)),
         status    |-> DomainStatus(d, _count_yes(ans, d))]]

(***************************************************************************)
(* EDIEvaluationService._apply_previous_group_if_needed                    *)
(***************************************************************************)
IsPreviousAnswer(a, area) ==
    a.domain = "AREA" /\ a.area = area /\ a.from_previous_group

\* Variant of PreviousGroupStatus: the comparison is inverted.
PreviousGroupStatus_inverted(prev_yes) ==
    IF prev_yes < 2 THEN YELLOW ELSE RED

\* Variant of PreviousGroupStatus: one "yes" fallback answer is enough.
PreviousGroupStatus_ge1(prev_yes) ==
    IF prev_yes >= 1 THEN YELLOW ELSE RED

\* Status given to a reconciled area from its number of "yes" fallback answers.
PreviousGroupStatus(prev_yes) ==
    IF prev_yes >= 2 THEN YELLOW ELSE RED

\* Variant of NeedsPreviousGroup: the guard "current_yes != 0" is missing.
NeedsPreviousGroup_any_yes(ans, status_map, counts_map, area) ==
    /\ status_map[area] = YELLOW
    /\ counts_map[area][2] # 0
    /\ CountIn(ans, {a \in BagToSet(ans) : IsPreviousAnswer(a, area)}) > 0

\* Variant of NeedsPreviousGroup: the guard "not prev_answers" is missing.
NeedsPreviousGroup_no_fallback(ans, status_map, counts_map, area) ==
    /\ status_map[area] = YELLOW
    /\ counts_map[area][2] # 0
    /\ counts_map[area][1] = 0

\* The guards of the loop body: the area is reconciled only when none of the
\* four "continue" statements is taken.
NeedsPreviousGroup(ans, status_map, counts_map, area) ==
    /\ status_map[area] = YELLOW
    /\ counts_map[area][2] # 0
    /\ counts_map[area][1] = 0
    /\ CountIn(ans, {a \in BagToSet(ans) : IsPreviousAnswer(a, area)}) > 0

\* Variant of WorstPrevResult: the status of the last reconciled area wins.
WorstPrevResult_last(worst, new_status) ==
    new_status

\* worst_prev_result after one reconciled area.
WorstPrevResult(worst, new_status) ==
    IF new_status = RED THEN RED
    ELSE IF worst = NONE THEN YELLOW
    ELSE worst

\* The loop "for area in self.AREAS", from the i-th area on, with the
\* accumulated locals acc = [applied, worst, status_map].
RECURSIVE PreviousGroupLoop(_, _, _, _)
PreviousGroupLoop(ans, counts_map, acc, i) ==
    IF i > Len(AREAS) THEN acc
    ELSE LET area == AREAS[i]
         IN IF ~NeedsPreviousGroup(ans, acc.status_map, counts_map, area)
            THEN PreviousGroupLoop(ans, counts_map, acc, i + 1)
            ELSE LET prev_yes   == CountIn(ans,
                                       {a \in BagToSet(ans) :
                                           IsPreviousAnswer(a, area)
                                           /\ a.value_bool})
                     new_status == PreviousGroupStatus(prev_yes)
                 IN PreviousGroupLoop(ans, counts_map,
                        [applied    |-> TRUE,
                         worst      |-> WorstPrevResult(acc.worst, new_status),
                         status_map |-> [acc.status_map
                                            EXCEPT ![area] = new_status]],
                        i + 1)

_apply_previous_group_if_needed(ans, status_map, counts_map) ==
    LET r == PreviousGroupLoop(ans, counts_map,
                 [applied |-> FALSE, worst |-> NONE, status_map |-> status_map],
                 1)
    IN [applied_previous      |-> r.applied,
        previous_group_result |-> r.worst,
        status_map            |-> r.status_map,
        counts_map            |-> counts_map]

(***************************************************************************)
(* EDIEvaluationService._calculate_final_diagnosis                         *)
(***************************************************************************)
\* Variant of GlobalOnlyAreas: band 5 still follows the rules of bands 1-4.
GlobalOnlyAreas_gt5(g) ==
    g > 5

\* "if self.age_group_num >= 5": the global result depends only on the areas,
\* NEURO and ALARM.
GlobalOnlyAreas(g) ==
    g >= 5

\* Variant of RiskBands5to15: a RED ALARM domain is ignored.
RiskBands5to15_no_alarm(red_areas, has_red_alarm, has_red_neuro) ==
    red_areas >= 1 \/ has_red_neuro

\* Variant of RiskBands5to15: a RED NEURO domain is ignored.
RiskBands5to15_no_neuro(red_areas, has_red_alarm, has_red_neuro) ==
    red_areas >= 1 \/ has_red_alarm

\* The RISK condition of bands 5-15.
RiskBands5to15(red_areas, has_red_alarm, has_red_neuro) ==
    red_areas >= 1 \/ has_red_alarm \/ has_red_neuro

\* Variant of RiskBands1to4: a YELLOW area needs both a biological risk factor
\* and an alert signal to give RISK.
RiskBands1to4_bio_and_alert(red_areas, yellow_areas, bio_count, alert_count, has_red_alarm, has_red_neuro) ==
    \/ red_areas >= 1
    \/ yellow_areas >= 2
    \/ (yellow_areas >= 1 /\ (bio_count >= 1 /\ alert_count >= 1))
    \/ has_red_alarm
    \/ has_red_neuro

\* The RISK condition of bands 1-4.
RiskBands1to4(red_areas, yellow_areas, bio_count, alert_count, has_red_alarm, has_red_neuro) ==
    \/ red_areas >= 1
    \/ yellow_areas >= 2
    \/ (yellow_areas >= 1 /\ (bio_count >= 1 \/ alert_count >= 1))
    \/ has_red_alarm
    \/ has_red_neuro

\* Variant of DelayBands1to4: one YELLOW area alone is no delay.
DelayBands1to4_no_yellow(yellow_areas, bio_count, alert_count) ==
    \/ alert_count >= 2
    \/ bio_count >= 2
    \/ (alert_count >= 1 /\ bio_count >= 1)

\* The DELAY condition of bands 1-4, evaluated when RISK does not apply.
DelayBands1to4(yellow_areas, bio_count, alert_count) ==
    \/ yellow_areas >= 1
    \/ alert_count >= 2
    \/ bio_count >= 2
    \/ (alert_count >= 1 /\ bio_count >= 1)

_calculate_final_diagnosis(status_map, domain_info, g) ==
    LET red_areas     == Cardinality({a \in AreaSet : status_map[a] = RED})
        yellow_areas  == Cardinality({a \in AreaSet : status_map[a] = YELLOW})
        has_red_alarm == domain_info["ALARM"].status = RED
        has_red_neuro == domain_info["NEURO"].status = RED
        alert_count   == domain_info["ALERT"].count
        bio_count     == domain_info["BIO"].count
        trace == [age_group_num |-> g,
                  red_areas     |-> red_areas,
                  yellow_areas  |-> yellow_areas,
                  alarm_status  |-> domain_info["ALARM"].status,
                  neuro_status  |-> domain_info["NEURO"].status,
                  alert_count   |-> alert_count,
                  bio_count     |-> bio_count]
        result(d, s) == [diagnosis |-> d, final_status |-> s, trace |-> trace]
    IN IF GlobalOnlyAreas(g)
       THEN IF RiskBands5to15(red_areas, has_red_alarm, has_red_neuro)
            THEN result(RISK, RED)
            ELSE IF yellow_areas >= 1
                 THEN result(DELAY, YELLOW)
                 ELSE result(NORMAL, GREEN)
       ELSE IF RiskBands1to4(red_areas, yellow_areas, bio_count, alert_count,
                             has_red_alarm, has_red_neuro)
            THEN result(RISK, RED)
            ELSE IF DelayBands1to4(yellow_areas, bio_count, alert_count)
                 THEN result(DELAY, YELLOW)
                 ELSE result(NORMAL, GREEN)

(***************************************************************************)
(* EDIEvaluationService._persist_area_results / _persist_domain_results    *)
(***************************************************************************)
\* Variant of _persist_area_results: areas without a status are not skipped.
_persist_area_results_no_skip(status_map, counts_map) ==
    {[area        |-> area,
      yes_count   |-> counts_map[area][1],
      total_count |-> counts_map[area][2],
      status      |-> IF status_map[area] = NONE THEN GREEN
                      ELSE status_map[area]] : area \in AreaSet}

_persist_area_results(status_map, counts_map) ==
    {[area        |-> area,
      yes_count   |-> counts_map[area][1],
      total_count |-> counts_map[area][2],
      status      |-> IF status_map[area] = NONE THEN GREEN
                      ELSE status_map[area]] :
        area \in {a \in AreaSet :
                     ~(status_map[a] = NONE /\ counts_map[a][2] = 0)}}

\* Variant of _persist_domain_results: domains without a finding are skipped,
\* as areas without answers are.
_persist_domain_results_skip_empty(domain_info) ==
    {[domain    |-> d,
      count     |-> domain_info[d].count,
      red_flags |-> domain_info[d].red_flags,
      status    |-> domain_info[d].status] :
        d \in {x \in DOMAIN domain_info :
                  domain_info[x].count + domain_info[x].red_flags > 0}}

_persist_domain_results(domain_info) ==
    {[domain    |-> d,
      count     |-> domain_info[d].count,
      red_flags |-> domain_info[d].red_flags,
      status    |-> domain_info[d].status] : d \in DOMAIN domain_info}

(***************************************************************************)
(* EDIEvaluationService.calculate_evaluation: the values computed by       *)
(* steps 1 to 4 for a service holding the answers ans and the band g.      *)
(***************************************************************************)
\* Variant of Evaluate: the diagnosis and its trace are computed from the area
\* statuses of step 1, before the previous group is applied.
Evaluate_before_previous(ans, g) ==
    LET areas   == _calculate_development_areas(ans, g)
        domains == _calculate_domains(ans)
        prev    == IF Config(g).has_previous
                   THEN _apply_previous_group_if_needed(
                            ans, areas.status_map, areas.counts_map)
                   ELSE [applied_previous      |-> FALSE,
                         previous_group_result |-> NONE,
                         status_map            |-> areas.status_map,
                         counts_map            |-> areas.counts_map]
        final   == _calculate_final_diagnosis(areas.status_map, domains, g)
    IN [area_status_map |-> prev.status_map,
        area_counts_map |-> prev.counts_map,
        domain_info     |-> domains,
        summary         |-> [applied_previous_group |-> prev.applied_previous,
                             previous_group_result  |-> prev.previous_group_result,
                             diagnosis              |-> final.diagnosis,
                             final_status           |-> final.final_status,
                             trace                  |-> final.trace]]

Evaluate(ans, g) ==
    LET areas   == _calculate_development_areas(ans, g)
        domains == _calculate_domains(ans)
        prev    == IF Config(g).has_previous
                   THEN _apply_previous_group_if_needed(
                            ans, areas.status_map, areas.counts_map)
                   ELSE [applied_previous      |-> FALSE,
                         previous_group_result |-> NONE,
                         status_map            |-> areas.status_map,
                         counts_map            |-> areas.counts_map]
        final   == _calculate_final_diagnosis(prev.status_map, domains, g)
    IN [area_status_map |-> prev.status_map,
        area_counts_map |-> prev.counts_map,
        domain_info     |-> domains,
        summary         |-> [applied_previous_group |-> prev.applied_previous,
                             previous_group_result  |-> prev.previous_group_result,
                             diagnosis              |-> final.diagnosis,
                             final_status           |-> final.final_status,
                             trace                  |-> final.trace]]

(***************************************************************************)
(* Actions.                                                                *)
(***************************************************************************)
\* EvaluationCreateSerializer.create, Evaluation.objects.create: the
\* evaluation exists with its age and has no answers and no results yet.
InitWith(ages) ==
    /\ pc = "answers"
    /\ age_in_months \in ages
    /\ answers = EmptyBag
    /\ svc_answers = EmptyBag
    /\ age_group_num = 0
    /\ area_results = {}
    /\ domain_results = {}
    /\ summaries = {}
    /\ runs = [r \in Requests |-> IdleRun]
    /\ scored_answers = EmptyBag
    /\ submission = [raw_months        |-> age_in_months,
                     use_corrected_age |-> TRUE,
                     is_premature      |-> FALSE,
                     gestational_weeks |-> UnknownWeeks,
                     version_ok        |-> TRUE,
                     age_band          |-> WholeRange]
    /\ patient = [stored            |-> TRUE,
                  is_premature      |-> FALSE,
                  gestational_weeks |-> UnknownWeeks]
    /\ evaluation = [stored |-> TRUE, used_corrected_age |-> FALSE]
    /\ patient_before = patient

Init == InitWith(SampleAges)

InitAllAges == InitWith(0..MaxAge)

\* EvaluationCreateSerializer.create, one iteration of the loop that stores
\* the submitted answers.
AnswerCreate(a, max) ==
    /\ pc = "answers"
    /\ BagCardinality(answers) < max
    /\ answers' = answers (+) SetToBag({a})
    /\ UNCHANGED <<pc, age_in_months, svc_answers, age_group_num,
                   area_results, domain_results, summaries, runs,
                   scored_answers, submission, patient, evaluation,
                   patient_before>>

\* EDIEvaluationService.__init__, called by create after the loop; the
\* submission holds at least one answer (validate_answers).
ServiceInit ==
    /\ pc = "answers"
    /\ BagCardinality(answers) >= 1
    /\ svc_answers' = answers
    /\ age_group_num' = _get_age_group_num(age_in_months)
    /\ pc' = "service"
    /\ UNCHANGED <<age_in_months, answers,
                   area_results, domain_results, summaries, runs,
                   scored_answers, submission, patient, evaluation,
                   patient_before>>

\* EDIEvaluationService.calculate_evaluation, called by create on the new
\* evaluation: delete the stored results, compute, and store the new results,
\* in one transaction.  Later calls are the statement-by-statement actions of
\* SpecRescore.
CalculateEvaluation ==
    /\ pc = "service"
    /\ LET r == Evaluate(svc_answers, age_group_num)
       IN /\ area_results' =
                 _persist_area_results(r.area_status_map, r.area_counts_map)
          /\ domain_results' = _persist_domain_results(r.domain_info)
          /\ summaries' = {r.summary}
    /\ pc' = "scored"
    /\ scored_answers' = svc_answers
    /\ UNCHANGED <<age_in_months, answers, svc_answers, age_group_num, runs,
                   submission, patient, evaluation, patient_before>>

Next ==
    \/ \E a \in AnswerKinds : AnswerCreate(a, MaxAnswers)
    \/ ServiceInit
    \/ CalculateEvaluation

\* Evaluations of the sampled ages with up to MaxAnswers answers.
Spec == Init /\ [][Next]_vars

NextAllAges ==
    \/ \E a \in AnswerKinds : AnswerCreate(a, MaxAnswersAllAges)
    \/ ServiceInit
    \/ CalculateEvaluation

\* Evaluations of every age 0..MaxAge with up to MaxAnswersAllAges answers.
SpecAllAges == InitAllAges /\ [][NextAllAges]_vars

\* Ages of the evaluation in SpecAreaAnswers: bands 1, 2 and 8.
AreaAnswerAges == {1, 2, 13}

\* The answers to AREA questions.
AreaAnswerKinds == {a \in AnswerKinds : a.domain = "AREA"}

InitAreaAnswers == InitWith(AreaAnswerAges)

NextAreaAnswers ==
    \/ \E a \in AreaAnswerKinds : AnswerCreate(a, MaxAreaAnswers)
    \/ ServiceInit
    \/ CalculateEvaluation

\* Evaluations with up to MaxAreaAnswers answers, all to AREA questions: the
\* submissions in which several areas are reconciled.
SpecAreaAnswers == InitAreaAnswers /\ [][NextAreaAnswers]_vars

\* Largest number of answers of the evaluation in SpecShapes.
MaxShapeAnswers == 2

\* Ages of the evaluation in SpecShapes: bands 2 and 8.
ShapeAges == {2, 13}

\* Answers whose Question row was saved without full_clean (Question.clean and
\* the choices of domain and area are checked by forms only): an AREA
\* question without area, an AREA question with an area that is not one of
\* the five, a NEURO question that carries an area, a question with a domain
\* that is not one of the five.
InvalidShapeKinds ==
    {[domain |-> "AREA", area |-> NONE,
      from_previous_group |-> FALSE, value_bool |-> FALSE],
     [domain |-> "AREA", area |-> "otra",
      from_previous_group |-> FALSE, value_bool |-> FALSE],
     [domain |-> "NEURO", area |-> AREAS[1],
      from_previous_group |-> FALSE, value_bool |-> TRUE],
     [domain |-> "OTRO", area |-> NONE,
      from_previous_group |-> FALSE, value_bool |-> TRUE]}

\* The answers in SpecShapes: those of invalid shape and the answers to a
\* question of the first area in the current band.
ShapeKinds ==
    InvalidShapeKinds
    \cup {a \in AnswerKinds : a.domain = "AREA" /\ a.area = AREAS[1]
                               /\ ~a.from_previous_group}

InitShapes == InitWith(ShapeAges)

NextShapes ==
    \/ \E a \in ShapeKinds : AnswerCreate(a, MaxShapeAnswers)
    \/ ServiceInit
    \/ CalculateEvaluation

\* Evaluations with up to MaxShapeAnswers answers, some to questions of
\* invalid shape.
SpecShapes == InitShapes /\ [][NextShapes]_vars

(***************************************************************************)
(* Evaluations whose answers to NEURO, ALARM, ALERT and BIO questions carry *)
(* from_previous_group = true as well as false.                             *)
(***************************************************************************)
\* The most answers of an evaluation in SpecFlags.
MaxFlagAnswers == 2

\* Ages in bands 1 (no previous group), 2 and 8.
FlagAges == {1, 2, 13}

\* The answers in SpecFlags: domain answers with either flag, and the area
\* answers of AnswerKinds.
FlagKinds ==
    [domain : DomainCodes, area : {NONE},
     from_previous_group : BOOLEAN, value_bool : BOOLEAN]
    \cup {a \in AnswerKinds : a.domain = "AREA"}

InitFlags == InitWith(FlagAges)

NextFlags ==
    \/ \E a \in FlagKinds : AnswerCreate(a, MaxFlagAnswers)
    \/ ServiceInit
    \/ CalculateEvaluation

SpecFlags == InitFlags /\ [][NextFlags]_vars

(***************************************************************************)
(* Scoring the evaluation again: calculate_evaluation statement by          *)
(* statement, in the transaction opened by @transaction.atomic.  A          *)
(* transaction sees the committed rows, without those it deleted and with   *)
(* those it inserted; it waits for a row that another open transaction      *)
(* deleted or inserted; its writes are committed together or not at all.    *)
(***************************************************************************)
\* Largest number of Answer rows of the evaluation in SpecRescore and
\* SpecConcurrent.
MaxRescoreAnswers == 1

\* Ages of the evaluation in SpecRescore and SpecConcurrent: band 2.
RescoreAges == {2}

\* The answers in SpecRescore and SpecConcurrent: "yes" and "no" to a question
\* of the first area in the current band, and "yes" to a NEURO question.
RescoreKinds ==
    {a \in AnswerKinds :
        \/ a.domain = "AREA" /\ a.area = AREAS[1] /\ ~a.from_previous_group
        \/ a.domain = "NEURO" /\ a.value_bool}

\* Variant of Atomic: calculate_evaluation without @transaction.atomic, every
\* statement is committed on its own.
Atomic_off == FALSE

\* @transaction.atomic on calculate_evaluation.
Atomic == TRUE

\* Variant of DeletedAreaResults: the statement deletes nothing.
DeletedAreaResults_none(rows) == {}

\* self.evaluation.area_results.all().delete(): the rows deleted among those
\* the transaction sees.
DeletedAreaResults(rows) == rows

\* self.evaluation.domain_results.all().delete()
DeletedDomainResults(rows) == rows

\* Variant of DeletedSummaries: the statement deletes nothing.
DeletedSummaries_none(rows) == {}

\* EvaluationSummary.objects.filter(evaluation=self.evaluation).delete()
DeletedSummaries(rows) == rows

\* The rows in the field f (deleted or inserted rows of one table) of the
\* transactions of the other requests.
OthersRows(r, f) == UNION {runs[o][f] : o \in Requests \ {r}}

\* The rows of a table a transaction sees.
TxVisible(committed, del, ins) == (committed \ del) \cup ins

\* The keys of the unique constraints: one AreaResult per evaluation and area,
\* one DomainResult per evaluation and domain, one Summary per evaluation.
AreaKeys(rows) == {x.area : x \in rows}

DomainKeys(rows) == {x.domain : x \in rows}

SummaryKeys(rows) == IF rows = {} THEN {} ELSE {"evaluation"}

\* The positions inside the transaction.
TxSteps ==
    {"delete_areas", "delete_domains", "delete_summary",
     "persist_areas", "persist_domains", "create_summary", "commit"}

\* An exception leaves calculate_evaluation: the transaction is rolled back.
Abort(r, error) ==
    runs' = [runs EXCEPT ![r] = [IdleRun EXCEPT !.error = error]]

\* A statement of request r that wrote nothing outside the given table.
RunFrame ==
    UNCHANGED <<pc, age_in_months, answers, svc_answers, age_group_num,
                scored_answers, submission, patient, evaluation,
                patient_before>>

InitRescore == InitWith(RescoreAges)

\* AnswerAdmin: an Answer row is added to the evaluation after it was created.
AdminAnswerAdd(a) ==
    /\ pc = "scored"
    /\ BagCardinality(answers) < MaxRescoreAnswers
    /\ answers' = answers (+) SetToBag({a})
    /\ UNCHANGED <<pc, age_in_months, svc_answers, age_group_num,
                   area_results, domain_results, summaries, runs,
                   scored_answers, submission, patient, evaluation,
                   patient_before>>

\* AnswerAdmin: an Answer row of the evaluation is deleted.
AdminAnswerDelete(a) ==
    /\ pc = "scored"
    /\ BagIn(a, answers)
    /\ answers' = answers (-) SetToBag({a})
    /\ UNCHANGED <<pc, age_in_months, svc_answers, age_group_num,
                   area_results, domain_results, summaries, runs,
                   scored_answers, submission, patient, evaluation,
                   patient_before>>

\* EDIEvaluationService(evaluation): a new service reads the answers and the
\* band; calculate_evaluation is called on it next.
RescoreInit(r) ==
    /\ pc = "scored"
    /\ runs[r].pc \in {"idle", "done"}
    /\ runs' = [runs EXCEPT ![r] =
                   [IdleRun EXCEPT
                       !.pc = "delete_areas",
                       !.answers = answers,
                       !.age_group_num = _get_age_group_num(age_in_months)]]
    /\ UNCHANGED <<area_results, domain_results, summaries>>
    /\ RunFrame

\* self.evaluation.area_results.all().delete()
DeleteAreaResults(r) ==
    /\ runs[r].pc = "delete_areas"
    /\ LET target == DeletedAreaResults(area_results)
       IN /\ target \cap OthersRows(r, "del_areas") = {}
          /\ IF Atomic
             THEN /\ runs' = [runs EXCEPT ![r].del_areas = target,
                                          ![r].pc = "delete_domains"]
                  /\ UNCHANGED area_results
             ELSE /\ runs' = [runs EXCEPT ![r].pc = "delete_domains"]
                  /\ area_results' = area_results \ target
    /\ UNCHANGED <<domain_results, summaries>>
    /\ RunFrame

\* self.evaluation.domain_results.all().delete()
DeleteDomainResults(r) ==
    /\ runs[r].pc = "delete_domains"
    /\ LET target == DeletedDomainResults(domain_results)
       IN /\ target \cap OthersRows(r, "del_domains") = {}
          /\ IF Atomic
             THEN /\ runs' = [runs EXCEPT ![r].del_domains = target,
                                          ![r].pc = "delete_summary"]
                  /\ UNCHANGED domain_results
             ELSE /\ runs' = [runs EXCEPT ![r].pc = "delete_summary"]
                  /\ domain_results' = domain_results \ target
    /\ UNCHANGED <<area_results, summaries>>
    /\ RunFrame

\* EvaluationSummary.objects.filter(evaluation=self.evaluation).delete()
DeleteSummary(r) ==
    /\ runs[r].pc = "delete_summary"
    /\ LET target == DeletedSummaries(summaries)
       IN /\ target \cap OthersRows(r, "del_summaries") = {}
          /\ IF Atomic
             THEN /\ runs' = [runs EXCEPT ![r].del_summaries = target,
                                          ![r].pc = "persist_areas"]
                  /\ UNCHANGED summaries
             ELSE /\ runs' = [runs EXCEPT ![r].pc = "persist_areas"]
                  /\ summaries' = summaries \ target
    /\ UNCHANGED <<area_results, domain_results>>
    /\ RunFrame

\* Steps 1 to 4 and self._persist_area_results(...): the rows are inserted,
\* or the unique constraint uq_area_result_per_eval raises IntegrityError.
PersistAreaResults(r) ==
    /\ runs[r].pc = "persist_areas"
    /\ LET e   == Evaluate(runs[r].answers, runs[r].age_group_num)
           new == _persist_area_results(e.area_status_map, e.area_counts_map)
           visible == TxVisible(area_results, runs[r].del_areas,
                                runs[r].ins_areas)
           locked == OthersRows(r, "ins_areas")
                         \cup (area_results \cap OthersRows(r, "del_areas"))
       IN /\ AreaKeys(new) \cap AreaKeys(locked) = {}
          /\ IF AreaKeys(new) \cap AreaKeys(visible) # {}
             THEN Abort(r, "IntegrityError") /\ UNCHANGED area_results
             ELSE IF Atomic
             THEN /\ runs' = [runs EXCEPT ![r].ins_areas = new,
                                          ![r].pc = "persist_domains"]
                  /\ UNCHANGED area_results
             ELSE /\ runs' = [runs EXCEPT ![r].pc = "persist_domains"]
                  /\ area_results' = area_results \cup new
    /\ UNCHANGED <<domain_results, summaries>>
    /\ RunFrame

\* self._persist_domain_results(domain_info): the rows are inserted, or the
\* unique constraint uq_domain_result_per_eval raises IntegrityError.
PersistDomainResults(r) ==
    /\ runs[r].pc = "persist_domains"
    /\ LET e   == Evaluate(runs[r].answers, runs[r].age_group_num)
           new == _persist_domain_results(e.domain_info)
           visible == TxVisible(domain_results, runs[r].del_domains,
                                runs[r].ins_domains)
           locked == OthersRows(r, "ins_domains")
                         \cup (domain_results \cap OthersRows(r, "del_domains"))
       IN /\ DomainKeys(new) \cap DomainKeys(locked) = {}
          /\ IF DomainKeys(new) \cap DomainKeys(visible) # {}
             THEN Abort(r, "IntegrityError") /\ UNCHANGED domain_results
             ELSE IF Atomic
             THEN /\ runs' = [runs EXCEPT ![r].ins_domains = new,
                                          ![r].pc = "create_summary"]
                  /\ UNCHANGED domain_results
             ELSE /\ runs' = [runs EXCEPT ![r].pc = "create_summary"]
                  /\ domain_results' = domain_results \cup new
    /\ UNCHANGED <<area_results, summaries>>
    /\ RunFrame

\* EvaluationSummary.objects.create(...): the row is inserted, or the
\* one-to-one field EvaluationSummary.evaluation raises IntegrityError.
CreateSummary(r) ==
    /\ runs[r].pc = "create_summary"
    /\ LET e   == Evaluate(runs[r].answers, runs[r].age_group_num)
           new == {e.summary}
           visible == TxVisible(summaries, runs[r].del_summaries,
                                runs[r].ins_summaries)
           locked == OthersRows(r, "ins_summaries")
                         \cup (summaries \cap OthersRows(r, "del_summaries"))
       IN /\ SummaryKeys(new) \cap SummaryKeys(locked) = {}
          /\ IF SummaryKeys(new) \cap SummaryKeys(visible) # {}
             THEN Abort(r, "IntegrityError") /\ UNCHANGED summaries
             ELSE IF Atomic
             THEN /\ runs' = [runs EXCEPT ![r].ins_summaries = new,
                                          ![r].pc = "commit"]
                  /\ UNCHANGED summaries
             ELSE /\ runs' = [runs EXCEPT ![r].pc = "commit"]
                  /\ summaries' = summaries \cup new
    /\ UNCHANGED <<area_results, domain_results>>
    /\ RunFrame

\* calculate_evaluation returns: the transaction commits its deletions and
\* insertions together.
Commit(r) ==
    /\ runs[r].pc = "commit"
    /\ area_results' =
           TxVisible(area_results, runs[r].del_areas, runs[r].ins_areas)
    /\ domain_results' =
           TxVisible(domain_results, runs[r].del_domains, runs[r].ins_domains)
    /\ summaries' =
           TxVisible(summaries, runs[r].del_summaries, runs[r].ins_summaries)
    /\ scored_answers' = runs[r].answers
    /\ runs' = [runs EXCEPT ![r] = [IdleRun EXCEPT !.pc = "done"]]
    /\ UNCHANGED <<pc, age_in_months, answers, svc_answers, age_group_num,
                   submission, patient, evaluation, patient_before>>

\* A statement after the first deletion fails (a database error): the
\* exception leaves calculate_evaluation.
Fail(r) ==
    /\ runs[r].pc \in TxSteps \ {"delete_areas"}
    /\ Abort(r, "Error")
    /\ UNCHANGED <<area_results, domain_results, summaries>>
    /\ RunFrame

NextRescore ==
    \/ \E a \in RescoreKinds : AnswerCreate(a, MaxRescoreAnswers)
    \/ ServiceInit
    \/ CalculateEvaluation
    \/ \E a \in RescoreKinds : AdminAnswerAdd(a)
    \/ \E a \in RescoreKinds : AdminAnswerDelete(a)
    \/ RescoreInit("r1")
    \/ DeleteAreaResults("r1")
    \/ DeleteDomainResults("r1")
    \/ DeleteSummary("r1")
    \/ PersistAreaResults("r1")
    \/ PersistDomainResults("r1")
    \/ CreateSummary("r1")
    \/ Commit("r1")
    \/ Fail("r1")

\* The evaluation is created and scored, its answers are edited and one
\* request at a time scores it again; a statement may fail.
SpecRescore == InitRescore /\ [][NextRescore]_vars

NextConcurrent ==
    \/ \E a \in RescoreKinds : AnswerCreate(a, MaxRescoreAnswers)
    \/ ServiceInit
    \/ CalculateEvaluation
    \/ \E a \in RescoreKinds : AdminAnswerAdd(a)
    \/ \E a \in RescoreKinds : AdminAnswerDelete(a)
    \/ \E r \in Requests : RescoreInit(r)
    \/ \E r \in Requests : DeleteAreaResults(r)
    \/ \E r \in Requests : DeleteDomainResults(r)
    \/ \E r \in Requests : DeleteSummary(r)
    \/ \E r \in Requests : PersistAreaResults(r)
    \/ \E r \in Requests : PersistDomainResults(r)
    \/ \E r \in Requests : CreateSummary(r)
    \/ \E r \in Requests : Commit(r)

\* The evaluation is created and scored, its answers are edited and two
\* requests score it again at the same time.
SpecConcurrent == InitRescore /\ [][NextConcurrent]_vars

(***************************************************************************)
(* EvaluationCreateSerializer.create, statement by statement.  No          *)
(* transaction spans create, and SubmitEvaluation.post only catches the    *)
(* exception, so every row written before a ValidationError stays stored.  *)
(***************************************************************************)
\* The largest raw age of a submission; the correction applies below 24.
MaxRawMonths == 26

\* The most answers of a submission.
MaxSubmitAnswers == 1

\* The raw ages of the submissions.
RawMonths == 0 .. MaxRawMonths

\* gestational_weeks as the serializer accepts it: absent, or 20 to 42.
GestationalWeeks == {UnknownWeeks} \cup (20 .. 42)

\* The age band named by the submission: a code with no AgeBand row, or one
\* of two rows that between them hold every age create can compute.
UnknownBand == [known |-> FALSE, min_months |-> 0, max_months |-> 0]

AgeBandRows ==
    { [known |-> TRUE, min_months |-> 0, max_months |-> 11],
      [known |-> TRUE, min_months |-> 12, max_months |-> MaxRawMonths + 1] }

\* The patient of the submission before create: none with its document_id,
\* or one stored by an earlier submission.
NoPatient ==
    [stored |-> FALSE, is_premature |-> FALSE,
     gestational_weeks |-> UnknownWeeks]

ExistingPatient ==
    [stored |-> TRUE, is_premature |-> TRUE, gestational_weeks |-> 32]

NoEvaluation == [stored |-> FALSE, used_corrected_age |-> FALSE]

\* The answers a submission holds.
SubmitKinds ==
    { [domain |-> "NEURO", area |-> NONE,
       from_previous_group |-> FALSE, value_bool |-> TRUE] }

_corrected_age_months_trunc(months, is_premature, gestational_weeks) ==
    IF is_premature /\ gestational_weeks # UnknownWeeks /\ months < 24
    THEN LET correction_weeks  == 40 - gestational_weeks
             correction_months ==
                 IF correction_weeks < 0 THEN 0 - ((0 - correction_weeks) \div 4)
                 ELSE correction_weeks \div 4
         IN IF months - correction_months > 0
            THEN months - correction_months ELSE 0
    ELSE months

\* _corrected_age_months, on the raw age in months; // rounds down.
_corrected_age_months(months, is_premature, gestational_weeks) ==
    IF is_premature /\ gestational_weeks # UnknownWeeks /\ months < 24
    THEN LET correction_weeks  == 40 - gestational_weeks
             correction_months == correction_weeks \div 4
         IN IF months - correction_months > 0
            THEN months - correction_months ELSE 0
    ELSE months

InitSubmit ==
    /\ pc = "submitted"
    /\ submission \in [raw_months        : RawMonths,
                       use_corrected_age : BOOLEAN,
                       is_premature      : BOOLEAN,
                       gestational_weeks : GestationalWeeks,
                       version_ok        : BOOLEAN,
                       age_band          : {UnknownBand} \cup AgeBandRows]
    /\ patient \in {NoPatient, ExistingPatient}
    /\ patient_before = patient
    /\ evaluation = NoEvaluation
    /\ age_in_months = 0
    /\ answers = EmptyBag
    /\ svc_answers = EmptyBag
    /\ age_group_num = 0
    /\ area_results = {}
    /\ domain_results = {}
    /\ summaries = {}
    /\ runs = [r \in Requests |-> IdleRun]
    /\ scored_answers = EmptyBag

SubmitFrame ==
    UNCHANGED <<answers, svc_answers, age_group_num, area_results,
                domain_results, summaries, runs, scored_answers, submission,
                patient_before>>

\* Patient.objects.update_or_create: the defaults leave out the values that
\* are None, so absent gestational_weeks keep the stored ones.
PatientUpdateOrCreate ==
    /\ pc = "submitted"
    /\ patient' =
           [stored            |-> TRUE,
            is_premature      |-> submission.is_premature,
            gestational_weeks |->
                IF submission.gestational_weeks # UnknownWeeks
                THEN submission.gestational_weeks
                ELSE patient.gestational_weeks]
    /\ pc' = "patient"
    /\ UNCHANGED <<age_in_months, evaluation>>
    /\ SubmitFrame

\* _resolve_instrument_version: ValidationError when no InstrumentVersion
\* matches.
ResolveInstrumentVersion ==
    /\ pc = "patient"
    /\ pc' = IF submission.version_ok THEN "version" ELSE "rejected"
    /\ UNCHANGED <<age_in_months, patient, evaluation>>
    /\ SubmitFrame

\* The AgeBand lookup: ValidationError when the version has no such band.
ResolveAgeBand ==
    /\ pc = "version"
    /\ pc' = IF submission.age_band.known THEN "band" ELSE "rejected"
    /\ UNCHANGED <<age_in_months, patient, evaluation>>
    /\ SubmitFrame

\* The age computation, the range check against the band, and
\* Evaluation.objects.create.
EvaluationCreate ==
    /\ pc = "band"
    /\ LET raw_months == submission.raw_months
           corrected_months ==
               _corrected_age_months(raw_months, patient.is_premature,
                                     patient.gestational_weeks)
           used_corrected ==
               /\ submission.use_corrected_age
               /\ patient.is_premature
               /\ patient.gestational_weeks # UnknownWeeks
               /\ raw_months < 24
           age == IF used_corrected THEN corrected_months ELSE raw_months
       IN IF /\ submission.age_band.min_months <= age
             /\ age <= submission.age_band.max_months
          THEN /\ evaluation' = [stored |-> TRUE,
                                 used_corrected_age |-> used_corrected]
               /\ age_in_months' = age
               /\ pc' = "answers"
          ELSE /\ pc' = "rejected"
               /\ UNCHANGED <<age_in_months, evaluation>>
    /\ UNCHANGED patient
    /\ SubmitFrame

\* The answers loop meets an answer whose question_id or question_code names
\* no Question of the version: ValidationError after the Evaluation and the
\* answers before it were created.
AnswerRejected ==
    /\ pc = "answers"
    /\ BagCardinality(answers) < MaxSubmitAnswers
    /\ pc' = "rejected"
    /\ UNCHANGED <<age_in_months, patient, evaluation>>
    /\ SubmitFrame

NextSubmit ==
    \/ PatientUpdateOrCreate
    \/ ResolveInstrumentVersion
    \/ ResolveAgeBand
    \/ EvaluationCreate
    \/ \E a \in SubmitKinds : AnswerCreate(a, MaxSubmitAnswers)
    \/ AnswerRejected
    \/ ServiceInit
    \/ CalculateEvaluation

SpecSubmit == InitSubmit /\ [][NextSubmit]_vars

(***************************************************************************)
(* Vocabulary of the properties: the counts are taken from the Answer rows *)
(* of the evaluation, the results from the stored rows.                    *)
(***************************************************************************)
RECURSIVE SumCopies(_, _)
SumCopies(b, S) ==
    IF S = {} THEN 0
    ELSE LET k == CHOOSE x \in S : TRUE
         IN CopiesIn(k, b) + SumCopies(b, S \ {k})

\* The answers of the evaluation, by kind.
Answered == BagToSet(answers)

NumAnswers(S) == SumCopies(answers, S)

CurTotal(area) ==
    NumAnswers({k \in Answered : k.domain = "AREA" /\ k.area = area
                                 /\ ~k.from_previous_group})

CurYes(area) ==
    NumAnswers({k \in Answered : k.domain = "AREA" /\ k.area = area
                                 /\ ~k.from_previous_group /\ k.value_bool})

PrevTotal(area) ==
    NumAnswers({k \in Answered : k.domain = "AREA" /\ k.area = area
                                 /\ k.from_previous_group})

PrevYes(area) ==
    NumAnswers({k \in Answered : k.domain = "AREA" /\ k.area = area
                                 /\ k.from_previous_group /\ k.value_bool})

DomainTotal(d) == NumAnswers({k \in Answered : k.domain = d})

DomainYes(d) == NumAnswers({k \in Answered : k.domain = d /\ k.value_bool})

AreaRows(area) == {r \in area_results : r.area = area}

DomainRows(d) == {r \in domain_results : r.domain = d}

\* The run has stored its results.
Scored == pc = "scored"

\* The status the area scorer (step 1 of calculate_evaluation) gives the area.
ScorerStatus(area) ==
    _calculate_development_areas(svc_answers, age_group_num).status_map[area]

\* Every stored summary has the given diagnosis and final status.
FinalIs(d, s) ==
    /\ summaries # {}
    /\ \A m \in summaries : m.diagnosis = d /\ m.final_status = s

(***************************************************************************)
(* C1                                                                      *)
(***************************************************************************)
BandUpperMonths == <<1, 2, 3, 4, 6, 9, 12, 15, 18, 24, 30, 36, 48, 59>>

\* The band of the first threshold the age does not exceed, else 15.
FirstMatchingBand(months) ==
    IF \E i \in 1..Len(BandUpperMonths) : months <= BandUpperMonths[i]
    THEN CHOOSE i \in 1..Len(BandUpperMonths) :
            /\ months <= BandUpperMonths[i]
            /\ \A j \in 1..(i - 1) : months > BandUpperMonths[j]
    ELSE 15

\* C1: for every age 0..MaxAge the service's band is an ordinal in 1..15, it
\* is the band of the first matching threshold of the chain, no smaller age
\* gets a larger band, and every age above 59 months gets band 15.
C1_AgeBand ==
    pc # "answers" =>
        /\ age_group_num \in 1..15
        /\ age_group_num = FirstMatchingBand(age_in_months)
        /\ \A m \in 0..age_in_months :
              _get_age_group_num(m) <= age_group_num
        /\ (age_in_months > 59 => age_group_num = 15)

\* An evaluation older than the last threshold has been given band 15.
C1_Witness ==
    pc = "service" /\ age_in_months > 59 /\ age_group_num = 15

(***************************************************************************)
(* C2                                                                      *)
(***************************************************************************)
\* C2: in band 1 every area with a current-band answer is stored GREEN when
\* all its current-band answers are "yes" and RED otherwise, never YELLOW,
\* and an area with a "no" makes the result RISK/RED.
C2_Band1Areas ==
    (Scored /\ age_group_num = 1) =>
        \A area \in AreaSet :
            CurTotal(area) >= 1 =>
                /\ AreaRows(area) # {}
                /\ \A r \in AreaRows(area) :
                      /\ r.status = (IF CurYes(area) = CurTotal(area)
                                     THEN GREEN ELSE RED)
                      /\ r.status # YELLOW
                /\ ScorerStatus(area) = (IF CurYes(area) = CurTotal(area)
                                         THEN GREEN ELSE RED)
                /\ (CurYes(area) < CurTotal(area) => FinalIs(RISK, RED))

\* Band 1, motriz_gruesa answered once "yes" and once "no": stored RED, and
\* the result is RISK/RED.
C2_Witness ==
    /\ Scored
    /\ age_group_num = 1
    /\ CurTotal("motriz_gruesa") = 2
    /\ CurYes("motriz_gruesa") = 1
    /\ \E r \in AreaRows("motriz_gruesa") : r.status = RED
    /\ FinalIs(RISK, RED)

(***************************************************************************)
(* C3                                                                      *)
(***************************************************************************)
\* C3: in bands 2 to 7 the area scorer gives every area with a current-band
\* answer GREEN when all its current-band answers are "yes" and YELLOW
\* otherwise, never RED.
C3_Bands2to7Areas ==
    (Scored /\ age_group_num \in 2..7) =>
        \A area \in AreaSet :
            CurTotal(area) >= 1 =>
                /\ ScorerStatus(area) = (IF CurYes(area) = CurTotal(area)
                                         THEN GREEN ELSE YELLOW)
                /\ ScorerStatus(area) # RED

\* Band 7, an area answered once "yes" and once "no" is scored YELLOW and
\* another area answered "yes" only is scored GREEN.
C3_Witness ==
    /\ Scored
    /\ age_group_num = 7
    /\ \E area \in AreaSet :
          /\ CurTotal(area) = 2 /\ CurYes(area) = 1
          /\ ScorerStatus(area) = YELLOW
    /\ \E area \in AreaSet :
          /\ CurTotal(area) = 1 /\ CurYes(area) = 1
          /\ ScorerStatus(area) = GREEN

(***************************************************************************)
(* C4                                                                      *)
(***************************************************************************)
\* C4: in bands 8 to 15 the area scorer gives every area with a current-band
\* answer GREEN when at least 2 of its current-band answers are "yes" and
\* YELLOW otherwise, never RED.
C4_Bands8to15Areas ==
    (Scored /\ age_group_num \in 8..15) =>
        \A area \in AreaSet :
            CurTotal(area) >= 1 =>
                /\ ScorerStatus(area) = (IF CurYes(area) >= 2
                                         THEN GREEN ELSE YELLOW)
                /\ ScorerStatus(area) # RED

\* Band 8 or later, an area with 3 current-band answers of which exactly 2
\* are "yes" is scored GREEN.
C4_Witness ==
    /\ Scored
    /\ age_group_num \in 8..15
    /\ \E area \in AreaSet :
          /\ CurTotal(area) = 3 /\ CurYes(area) = 2
          /\ ScorerStatus(area) = GREEN

(***************************************************************************)
(* C5                                                                      *)
(***************************************************************************)
\* C5: an area without a current-band answer has no status (not GREEN), no
\* AreaResult row is stored for it, and it is counted neither as a red nor
\* as a yellow area, whatever fallback answers it has; the run succeeds.
C5_AbsentArea ==
    Scored =>
        /\ summaries # {}
        /\ \A area \in AreaSet :
              CurTotal(area) = 0 =>
                  /\ ScorerStatus(area) = NONE
                  /\ AreaRows(area) = {}
        /\ \A m \in summaries :
              /\ m.trace.red_areas =
                    Cardinality({a \in AreaSet : CurTotal(a) >= 1
                                    /\ \E r \in AreaRows(a) : r.status = RED})
              /\ m.trace.yellow_areas =
                    Cardinality({a \in AreaSet : CurTotal(a) >= 1
                                    /\ \E r \in AreaRows(a) : r.status = YELLOW})

\* A scored evaluation in which an area has fallback answers only, and no
\* row, while another area has a row.
C5_Witness ==
    /\ Scored
    /\ \E area \in AreaSet :
          /\ CurTotal(area) = 0 /\ PrevTotal(area) >= 1
          /\ AreaRows(area) = {}
    /\ area_results # {}

(***************************************************************************)
(* C6                                                                      *)
(***************************************************************************)
\* C6: NEURO and ALARM are RED when they have a "yes" answer and GREEN
\* otherwise; ALERT and BIO are YELLOW when they have a "yes" answer and
\* GREEN otherwise.
C6_DomainStatus ==
    Scored =>
        \A d \in DomainCodes :
            /\ DomainRows(d) # {}
            /\ \A r \in DomainRows(d) :
                  r.status =
                     (IF DomainYes(d) >= 1
                      THEN (IF d \in {"NEURO", "ALARM"} THEN RED ELSE YELLOW)
                      ELSE GREEN)

\* A scored evaluation with a "yes" ALERT answer (stored YELLOW) and a "no"
\* ALARM answer (stored GREEN).
C6_Witness ==
    /\ Scored
    /\ DomainYes("ALERT") >= 1
    /\ DomainTotal("ALARM") >= 1 /\ DomainYes("ALARM") = 0
    /\ \E r \in DomainRows("ALERT") : r.status = YELLOW
    /\ \E r \in DomainRows("ALARM") : r.status = GREEN

(***************************************************************************)
(* C7                                                                      *)
(***************************************************************************)
\* C7: the stored count of every domain is its number of "yes" answers, and
\* red_flags is the number of NEURO "yes" answers for NEURO and 0 for the
\* other domains.
C7_DomainCounts ==
    Scored =>
        \A d \in DomainCodes :
            /\ DomainRows(d) # {}
            /\ \A r \in DomainRows(d) :
                  /\ r.count = DomainYes(d)
                  /\ r.red_flags = (IF d = "NEURO" THEN DomainYes(d) ELSE 0)

(***************************************************************************)
(* C8                                                                      *)
(***************************************************************************)
\* C8: every run, in every band, stores exactly one row for each of NEURO,
\* ALARM, ALERT and BIO; a domain without answers gets count 0, red_flags 0
\* and GREEN; the BIO and ALERT rows carry their counts in bands >= 5 too.
C8_DomainRows ==
    Scored =>
        /\ age_group_num \in 1..15
        /\ \A d \in DomainCodes :
              /\ Cardinality(DomainRows(d)) = 1
              /\ DomainTotal(d) = 0 =>
                    \A r \in DomainRows(d) :
                        r.count = 0 /\ r.red_flags = 0 /\ r.status = GREEN
        /\ \A d \in {"BIO", "ALERT"} :
              \A r \in DomainRows(d) :
                  /\ r.count = DomainYes(d)
                  /\ r.status = (IF DomainYes(d) >= 1 THEN YELLOW ELSE GREEN)

\* Band >= 5, a "yes" BIO answer and no NEURO, ALARM or ALERT answer: the
\* BIO row holds the count, the other rows are empty and GREEN, and the
\* result is NORMAL/GREEN.
C8_Witness ==
    /\ Scored
    /\ age_group_num >= 5
    /\ DomainYes("BIO") = 1
    /\ \A d \in {"NEURO", "ALARM", "ALERT"} : DomainTotal(d) = 0
    /\ \E r \in DomainRows("BIO") : r.count = 1 /\ r.status = YELLOW
    /\ \E r \in DomainRows("ALERT") : r.count = 0 /\ r.status = GREEN
    /\ FinalIs(NORMAL, GREEN)

(***************************************************************************)
(* C9                                                                      *)
(***************************************************************************)
\* The area meets the condition of reconciliation.
Reconciled(area) ==
    /\ Config(age_group_num).has_previous
    /\ ScorerStatus(area) = YELLOW
    /\ CurYes(area) = 0
    /\ PrevTotal(area) >= 1

\* C9: in bands 2..15 an area that the scorer left YELLOW with no current
\* "yes" and that has a fallback answer is stored YELLOW when it has at least
\* 2 "yes" fallback answers and RED otherwise; the diagnosis uses the stored
\* status (RED gives RISK/RED) and applied_previous_group is true.
C9_Reconciliation ==
    (Scored /\ age_group_num \in 2..15) =>
        \A area \in AreaSet :
            (ScorerStatus(area) = YELLOW /\ CurYes(area) = 0
             /\ PrevTotal(area) >= 1) =>
                /\ AreaRows(area) # {}
                /\ \A r \in AreaRows(area) :
                      r.status = (IF PrevYes(area) >= 2 THEN YELLOW ELSE RED)
                /\ \A m \in summaries :
                      /\ m.applied_previous_group
                      /\ PrevYes(area) < 2 =>
                            /\ m.trace.red_areas >= 1
                            /\ m.diagnosis = RISK
                            /\ m.final_status = RED
                      /\ PrevYes(area) >= 2 => m.trace.yellow_areas >= 1
                /\ summaries # {}

\* Band 8 or later, an area with a "no" and no "yes" in the current band and
\* exactly one fallback answer, a "yes": stored RED, applied_previous_group,
\* RISK/RED.
C9_Witness ==
    /\ Scored
    /\ age_group_num >= 8
    /\ \E area \in AreaSet :
          /\ CurTotal(area) >= 1 /\ CurYes(area) = 0
          /\ PrevTotal(area) = 1 /\ PrevYes(area) = 1
          /\ \E r \in AreaRows(area) : r.status = RED
    /\ \E m \in summaries : m.applied_previous_group
    /\ FinalIs(RISK, RED)

(***************************************************************************)
(* C10                                                                     *)
(***************************************************************************)
\* C10: an area that does not meet the condition of reconciliation keeps the
\* status the scorer gave it (absent areas stay without a row), in band 1
\* always, whatever fallback answers exist; and every stored row keeps the
\* scorer's yes_count and total_count.
C10_ReconciliationFrame ==
    Scored =>
        \A area \in AreaSet :
            /\ (~Reconciled(area) \/ age_group_num = 1) =>
                  /\ ScorerStatus(area) = NONE <=> AreaRows(area) = {}
                  /\ \A r \in AreaRows(area) : r.status = ScorerStatus(area)
            /\ \A r \in AreaRows(area) :
                  /\ r.yes_count = CurYes(area)
                  /\ r.total_count = CurTotal(area)

\* A YELLOW area with a current-band "yes" and a "no" fallback answer stays
\* YELLOW.
C10_Witness ==
    /\ Scored
    /\ \E area \in AreaSet :
          /\ ScorerStatus(area) = YELLOW
          /\ CurYes(area) >= 1
          /\ PrevTotal(area) >= 1 /\ PrevYes(area) = 0
          /\ \E r \in AreaRows(area) : r.status = YELLOW

(***************************************************************************)
(* C11                                                                     *)
(***************************************************************************)
\* C11: applied_previous_group is true exactly when some area met the
\* condition of reconciliation in a band with previous-group fallback; it is
\* false in band 1.
C11_AppliedPreviousGroup ==
    Scored =>
        /\ summaries # {}
        /\ \A m \in summaries :
              /\ m.applied_previous_group <=>
                    \E area \in AreaSet : Reconciled(area)
              /\ age_group_num = 1 => ~m.applied_previous_group

\* Band 2, an area with a "no" and no "yes" in the current band and a
\* fallback answer: applied_previous_group is true.
C11_Witness ==
    /\ Scored
    /\ age_group_num = 2
    /\ \E area \in AreaSet :
          CurTotal(area) >= 1 /\ CurYes(area) = 0 /\ PrevTotal(area) >= 1
    /\ \E m \in summaries : m.applied_previous_group

(***************************************************************************)
(* C12                                                                     *)
(***************************************************************************)
\* The reconciled areas that became RED.
ReconciledRed == {a \in AreaSet : Reconciled(a) /\ PrevYes(a) < 2}

\* The reconciled areas that stayed YELLOW.
ReconciledYellow == {a \in AreaSet : Reconciled(a) /\ PrevYes(a) >= 2}

\* C12: previous_group_result is RED when a reconciled area became RED,
\* YELLOW when areas were reconciled and all stayed YELLOW, and null exactly
\* when applied_previous_group is false, in whatever order the areas come.
C12_PreviousGroupResult ==
    Scored =>
        /\ summaries # {}
        /\ \A m \in summaries :
              /\ m.previous_group_result =
                    (IF ReconciledRed # {} THEN RED
                     ELSE IF ReconciledYellow # {} THEN YELLOW
                     ELSE NONE)
              /\ m.previous_group_result = NONE <=> ~m.applied_previous_group

\* Two reconciled areas: the first area of AREAS became RED, a later one
\* stayed YELLOW, and previous_group_result is RED.
C12_Witness ==
    /\ Scored
    /\ AREAS[1] \in ReconciledRed
    /\ ReconciledYellow # {}
    /\ \E r \in AreaRows(AREAS[1]) : r.status = RED
    /\ \E m \in summaries : m.previous_group_result = RED

(***************************************************************************)
(* C13, C14                                                                *)
(***************************************************************************)
\* The number of stored AreaResults with the given status.
StoredAreas(status) == Cardinality({r \in area_results : r.status = status})

\* Some stored DomainResult of the domain is RED.
StoredRed(d) == \E r \in DomainRows(d) : r.status = RED

\* The number of "yes" answers to ALERT and to BIO questions.
AlertYes == DomainYes("ALERT")

BioYes == DomainYes("BIO")

\* C13: in bands 5-15 the summary is RISK/RED iff an area is RED or ALARM or
\* NEURO is RED; otherwise DELAY/YELLOW iff an area is YELLOW; otherwise
\* NORMAL/GREEN.
C13_Bands5to15Diagnosis ==
    (Scored /\ age_group_num >= 5) =>
        LET risk  == StoredAreas(RED) >= 1 \/ StoredRed("ALARM") \/ StoredRed("NEURO")
            delay == ~risk /\ StoredAreas(YELLOW) >= 1
        IN /\ risk => FinalIs(RISK, RED)
           /\ delay => FinalIs(DELAY, YELLOW)
           /\ (~risk /\ ~delay) => FinalIs(NORMAL, GREEN)

\* Scenario A: band 7, every area answer is "yes", no domain answer, and the
\* summary is NORMAL/GREEN.
C13_Witness ==
    /\ Scored
    /\ age_group_num = 7
    /\ BagCardinality(svc_answers) = MaxAnswers
    /\ \A a \in AreaSet : CurYes(a) = CurTotal(a) /\ PrevTotal(a) = 0
    /\ \A d \in DomainCodes : DomainTotal(d) = 0
    /\ \A r \in area_results : r.status = GREEN
    /\ FinalIs(NORMAL, GREEN)

\* C14: in bands 1-4 the summary is RISK/RED iff an area is RED, or two areas
\* are YELLOW, or an area is YELLOW with a biological risk factor or an alert
\* signal, or ALARM or NEURO is RED; otherwise DELAY/YELLOW iff an area is
\* YELLOW, or two alert signals, or two biological risk factors, or one of
\* each; otherwise NORMAL/GREEN.
C14_Bands1to4Diagnosis ==
    (Scored /\ age_group_num <= 4) =>
        LET red    == StoredAreas(RED)
            yellow == StoredAreas(YELLOW)
            risk  == \/ red >= 1
                     \/ yellow >= 2
                     \/ (yellow >= 1 /\ (BioYes >= 1 \/ AlertYes >= 1))
                     \/ StoredRed("ALARM")
                     \/ StoredRed("NEURO")
            delay == /\ ~risk
                     /\ \/ yellow >= 1
                        \/ AlertYes >= 2
                        \/ BioYes >= 2
                        \/ (AlertYes >= 1 /\ BioYes >= 1)
        IN /\ risk => FinalIs(RISK, RED)
           /\ delay => FinalIs(DELAY, YELLOW)
           /\ (~risk /\ ~delay) => FinalIs(NORMAL, GREEN)

\* Band 2, one YELLOW area, one biological risk factor and nothing else that
\* gives RISK: the summary is RISK/RED.
C14_Witness ==
    /\ Scored
    /\ age_group_num = 2
    /\ StoredAreas(YELLOW) = 1
    /\ StoredAreas(RED) = 0
    /\ BioYes = 1
    /\ AlertYes = 0
    /\ ~StoredRed("ALARM")
    /\ ~StoredRed("NEURO")
    /\ FinalIs(RISK, RED)

(***************************************************************************)
(* C15                                                                     *)
(***************************************************************************)
\* The answers to BIO and ALERT questions.
BioAlertKinds == {k \in AnswerKinds : k.domain \in {"BIO", "ALERT"}}

\* The answers of the run without those to BIO and ALERT questions.
WithoutBioAlert ==
    [k \in (BagToSet(svc_answers) \ BioAlertKinds) |-> svc_answers[k]]

\* C15: in bands 5-15 the diagnosis and the final status are those of the
\* evaluation without its answers to BIO and ALERT questions, so two
\* evaluations that differ only in these answers get the same ones.
C15_BioAlertIrrelevant ==
    (Scored /\ age_group_num >= 5) =>
        LET other == Evaluate(WithoutBioAlert, age_group_num).summary
        IN FinalIs(other.diagnosis, other.final_status)

\* Band 5, one YELLOW area, one biological risk factor and one alert signal:
\* the summary is DELAY/YELLOW, as without the two domain answers.
C15_Witness ==
    /\ Scored
    /\ age_group_num = 5
    /\ StoredAreas(YELLOW) = 1
    /\ BioYes = 1
    /\ AlertYes = 1
    /\ FinalIs(DELAY, YELLOW)
    /\ Evaluate(WithoutBioAlert, age_group_num).summary.diagnosis = DELAY

(***************************************************************************)
(* C16                                                                     *)
(***************************************************************************)
\* C16: the trace of the summary records the band, the numbers of RED and
\* YELLOW areas, the ALARM and NEURO statuses and the ALERT and BIO counts,
\* and these agree with the AreaResults and DomainResults stored by the run.
C16_Trace ==
    Scored =>
        /\ summaries # {}
        /\ \A m \in summaries :
              /\ DOMAIN m.trace = {"age_group_num", "red_areas", "yellow_areas",
                                   "alarm_status", "neuro_status",
                                   "alert_count", "bio_count"}
              /\ m.trace.age_group_num = age_group_num
              /\ m.trace.red_areas = StoredAreas(RED)
              /\ m.trace.yellow_areas = StoredAreas(YELLOW)
              /\ \A r \in DomainRows("ALARM") : m.trace.alarm_status = r.status
              /\ \A r \in DomainRows("NEURO") : m.trace.neuro_status = r.status
              /\ \A r \in DomainRows("ALERT") : m.trace.alert_count = r.count
              /\ \A r \in DomainRows("BIO") : m.trace.bio_count = r.count
        /\ \A d \in DomainCodes : DomainRows(d) # {}

\* An area reconciled to RED and an alert signal: the trace counts one RED
\* area, no YELLOW area and one alert signal.
C16_Witness ==
    /\ Scored
    /\ \E a \in AreaSet : Reconciled(a) /\ \E r \in AreaRows(a) : r.status = RED
    /\ \E m \in summaries :
          m.trace.red_areas = 1 /\ m.trace.yellow_areas = 0 /\ m.trace.alert_count = 1
    /\ StoredAreas(RED) = 1
    /\ AlertYes = 1

(***************************************************************************)
(* C17, C18, C19                                                           *)
(***************************************************************************)
\* The stored results are the three tables.
results == <<area_results, domain_results, summaries>>

\* Request r commits its transaction in this step.
Commits(r) == runs[r].pc = "commit" /\ runs'[r].pc = "done"

\* The stored results are exactly those of one run that read the answers b.
StoredBy(b) ==
    LET e == Evaluate(b, _get_age_group_num(age_in_months))
    IN /\ area_results =
              _persist_area_results(e.area_status_map, e.area_counts_map)
       /\ domain_results = _persist_domain_results(e.domain_info)
       /\ summaries = {e.summary}

\* C17: calculate_evaluation invoked again on an evaluation whose age and
\* answers are those of the run that stored the results completes without a
\* constraint violation and stores the same AreaResults, DomainResults and
\* Summary values.
C17_Idempotent ==
    [][\A r \in Requests :
          /\ runs'[r].error # "IntegrityError"
          /\ (Commits(r) /\ runs[r].answers = scored_answers)
                 => results' = results]_vars

\* The evaluation was scored when it was created and scored again by a
\* request that read the same answers; the results are those of one run.
C17_Witness ==
    /\ pc = "scored"
    /\ runs["r1"].pc = "done"
    /\ scored_answers = svc_answers
    /\ area_results # {}
    /\ StoredBy(svc_answers)

\* C18: after any sequence of invocations the evaluation has exactly one
\* Summary, one DomainResult for each domain, one AreaResult for each area
\* with a current-band answer in the answers read by the last run and none
\* for the other areas.
C18_ExactlyOneResult ==
    pc = "scored" =>
        /\ Cardinality(summaries) = 1
        /\ \A d \in DomainCodes : Cardinality(DomainRows(d)) = 1
        /\ \A area \in AreaSet :
              Cardinality(AreaRows(area)) =
                  IF CountIn(scored_answers,
                             {k \in AnswerKinds : IsCurrentAnswer(k, area)}) >= 1
                  THEN 1 ELSE 0

\* The run at creation stored an AreaResult; a later run read answers
\* without an answer for that area, and the AreaResult is gone.
C18_Witness ==
    /\ pc = "scored"
    /\ runs["r1"].pc = "done"
    /\ \E k \in BagToSet(svc_answers) : k.domain = "AREA"
    /\ \A k \in BagToSet(scored_answers) : k.domain # "AREA"
    /\ area_results = {}
    /\ Cardinality(domain_results) = Cardinality(DomainCodes)
    /\ Cardinality(summaries) = 1

\* C19: once the evaluation is scored its stored results change only when a
\* transaction commits: a run that fails after its first deletion, and every
\* statement of a run before the commit, leaves the visible records as they
\* were before the invocation.
C19_AllOrNothing ==
    [][(pc = "scored" /\ \A r \in Requests : ~Commits(r))
           => results' = results]_vars

\* A run that read other answers than those of the stored results failed
\* after its first deletion; the stored results are still those of the
\* earlier run.
C19_Witness ==
    /\ pc = "scored"
    /\ runs["r1"].pc = "idle"
    /\ runs["r1"].error = "Error"
    /\ answers # scored_answers
    /\ area_results # {}
    /\ StoredBy(scored_answers)

(***************************************************************************)
(* C20                                                                     *)
(***************************************************************************)
\* C20: with concurrent scoring requests for the evaluation the visible
\* results are those of a single run: the last one that committed, with one
\* row per key.
C20_SingleRun ==
    pc = "scored" => StoredBy(scored_answers)

(***************************************************************************)
(* C21                                                                     *)
(***************************************************************************)
\* C21: the read of the answers and the write of the results are one atomic
\* unit: when a run commits, the stored results are those derived from the
\* answers stored at that moment.
C21_ReadWriteAtomic ==
    [][\A r \in Requests : Commits(r) => StoredBy(answers)']_vars

(***************************************************************************)
(* C22, C23                                                                *)
(***************************************************************************)
\* The order GREEN < YELLOW < RED.
Severity(status) ==
    CASE status = GREEN  -> 0
      [] status = YELLOW -> 1
      [] status = RED    -> 2

\* The final status of an evaluation of the same age with the answers b.
FinalStatusOf(b) == Evaluate(b, age_group_num).summary.final_status

\* C22: an evaluation to which an ALARM answer "yes" was added is never less
\* severe than before: its final status is RED, in every band.
C22_AlarmMonotone ==
    (Scored /\ DomainYes("ALARM") >= 1) =>
        FinalIs(RISK, RED)

\* Band 7: without its ALARM answer "yes" the evaluation is GREEN, with it the
\* final status is RED.
C22_Witness ==
    /\ Scored
    /\ age_group_num = 7
    /\ DomainYes("ALARM") = 1
    /\ \E k \in Answered :
          /\ k.domain = "ALARM" /\ k.value_bool
          /\ FinalStatusOf(svc_answers (-) SetToBag({k})) = GREEN
    /\ FinalIs(RISK, RED)

\* C23: an evaluation reached by adding an AREA answer "no" (current band or
\* previous group), or by changing an AREA answer from "yes" to "no", has a
\* final status at least as severe as before.
C23_AreaNoMonotone ==
    Scored =>
        \A k \in Answered :
            (k.domain = "AREA" /\ ~k.value_bool) =>
                LET before  == svc_answers (-) SetToBag({k})
                    wasYes  == before (+) SetToBag({[k EXCEPT !.value_bool = TRUE]})
                IN \A m \in summaries :
                      /\ Severity(FinalStatusOf(before)) <= Severity(m.final_status)
                      /\ Severity(FinalStatusOf(wasYes)) <= Severity(m.final_status)

\* Band 2: an area with a current "no" and two fallback answers, one "yes" and
\* one "no"; with "yes" in place of the fallback "no" the evaluation was
\* YELLOW, now it is RED.
C23_Witness ==
    /\ Scored
    /\ age_group_num = 2
    /\ \E k \in Answered :
          /\ k.domain = "AREA" /\ k.from_previous_group /\ ~k.value_bool
          /\ FinalStatusOf((svc_answers (-) SetToBag({k}))
                 (+) SetToBag({[k EXCEPT !.value_bool = TRUE]})) = YELLOW
    /\ FinalIs(RISK, RED)

(***************************************************************************)
(* C24                                                                     *)
(***************************************************************************)
\* C24: an evaluation with an answer of invalid shape is rejected before
\* scoring: no derived result is ever stored for it.
C24_InvalidShapeRejected ==
    (Answered \cap InvalidShapeKinds # {}) =>
        (area_results = {} /\ domain_results = {} /\ summaries = {})

\* C25: the age stored on the evaluation and handed to the engine is the raw
\* age, except when corrected age was requested, the patient is premature,
\* the gestational weeks are known and the raw age is below 24 months: then
\* it is max(0, raw - floor((40 - gestational_weeks) / 4)) and
\* used_corrected_age is true; otherwise used_corrected_age is false.
C25_AgeHandedToEngine ==
    (evaluation.stored /\ pc # "rejected") =>
        LET raw     == submission.raw_months
            weeks   == patient.gestational_weeks
            applies == /\ submission.use_corrected_age
                       /\ patient.is_premature
                       /\ weeks # UnknownWeeks
                       /\ raw < 24
            floored == CHOOSE q \in -1 .. 5 :
                           4 * q <= 40 - weeks /\ 40 - weeks < 4 * q + 4
            age     == IF ~applies THEN raw
                       ELSE IF raw - floored > 0 THEN raw - floored ELSE 0
        IN /\ age_in_months = age
           /\ evaluation.used_corrected_age = applies
           /\ pc \in {"service", "scored"} =>
                  age_group_num = _get_age_group_num(age)

\* C25 witness: a premature patient of 3 months born at 20 weeks was scored
\* with the corrected age 0, and used_corrected_age is stored true.
C25_Witness ==
    /\ pc = "scored"
    /\ submission.raw_months = 3
    /\ patient.is_premature
    /\ patient.gestational_weeks = 20
    /\ evaluation.used_corrected_age
    /\ age_in_months = 0
    /\ age_group_num = _get_age_group_num(0)

\* C30: for every raw age, premature flag and accepted gestational_weeks,
\* _corrected_age_months returns a value between 0 and the raw age.
C30_CorrectedAgeWithinRaw ==
    (evaluation.stored /\ pc # "rejected") =>
        LET corrected_months ==
                _corrected_age_months(submission.raw_months,
                                      patient.is_premature,
                                      patient.gestational_weeks)
        IN /\ 0 <= corrected_months
           /\ corrected_months <= submission.raw_months
           /\ (evaluation.stored /\ evaluation.used_corrected_age) =>
                  age_in_months <= submission.raw_months

\* C27: a rejected submission leaves the store as it was: the Patient is the
\* one stored before the submission (none, or the same values), and no
\* Evaluation or Answer of the submission remains; so a stored Evaluation
\* whose submission has ended holds its answers and exactly one Summary.
C27_RejectedLeavesStore ==
    /\ pc = "rejected" =>
           /\ patient = patient_before
           /\ ~evaluation.stored
           /\ answers = EmptyBag
    /\ (evaluation.stored /\ pc \in {"rejected", "scored"}) =>
           /\ BagCardinality(answers) >= 1
           /\ Cardinality(summaries) = 1

\* C28: in every band, an area whose current-band answers are all "yes" (one
\* answer or more) is stored GREEN.
C28_AllYesGreen ==
    Scored => \A area \in AreaSet :
        (CurTotal(area) >= 1 /\ CurYes(area) = CurTotal(area)) =>
            \A r \in AreaRows(area) : r.status = GREEN

\* C29: the stored final status is at least as severe as the status of every
\* stored AreaResult and of the NEURO and ALARM DomainResults; a GREEN final
\* status means every stored AreaResult is GREEN; every stored AreaResult has
\* 0 <= yes_count <= total_count and total_count >= 1.
C29_FinalDominates ==
    Scored => \A m \in summaries :
        /\ \A r \in area_results :
               /\ Severity(r.status) <= Severity(m.final_status)
               /\ 0 <= r.yes_count
               /\ r.yes_count <= r.total_count
               /\ r.total_count >= 1
        /\ \A r \in DomainRows("NEURO") \cup DomainRows("ALARM") :
               Severity(r.status) <= Severity(m.final_status)
        /\ m.final_status = GREEN =>
               \A r \in area_results : r.status = GREEN

\* C29 witness: a band-2 evaluation with a YELLOW AreaResult and GREEN NEURO
\* and ALARM results is stored with a YELLOW final status.
C29_Witness ==
    /\ Scored
    /\ age_group_num = 2
    /\ StoredAreas(YELLOW) >= 1
    /\ StoredAreas(RED) = 0
    /\ ~StoredRed("NEURO")
    /\ ~StoredRed("ALARM")
    /\ \A m \in summaries : m.final_status = YELLOW

\* The answer k with from_previous_group cleared when its question is not an
\* AREA question.
ClearDomainFlag(k) ==
    IF k.domain = "AREA" THEN k ELSE [k EXCEPT !.from_previous_group = FALSE]

\* The answers b with the flag of every NEURO, ALARM, ALERT and BIO answer
\* cleared.
ClearDomainFlags(b) ==
    [k \in {ClearDomainFlag(j) : j \in BagToSet(b)} |->
        SumCopies(b, {j \in BagToSet(b) : ClearDomainFlag(j) = k})]

\* The results computed from the answers b leave the stored DomainResults and
\* the stored AreaResults of the areas other than area as they are.
SameButArea(b, area) ==
    LET e == Evaluate(b, age_group_num)
    IN /\ domain_results = _persist_domain_results(e.domain_info)
       /\ {r \in area_results : r.area # area} =
              {r \in _persist_area_results(e.area_status_map,
                                           e.area_counts_map) : r.area # area}

\* C26: from_previous_group is used for reconciliation only: the stored
\* results are those of the same answers with the flag of every NEURO, ALARM,
\* ALERT and BIO answer cleared; and taking away an AREA answer of the
\* previous group changes nothing when its area is not reconciled, and
\* otherwise changes neither the DomainResults nor the AreaResult of another
\* area.
C26_FlagOnlyReconciles ==
    Scored =>
        /\ StoredBy(ClearDomainFlags(svc_answers))
        /\ \A k \in Answered :
               (k.domain = "AREA" /\ k.from_previous_group) =>
                   LET without == svc_answers (-) SetToBag({k})
                   IN /\ SameButArea(without, k.area)
                      /\ ~Reconciled(k.area) => StoredBy(without)

\* C26 witness: a band-2 evaluation holds a flagged NEURO "yes" and a
\* previous-group answer of an area that is not reconciled; NEURO is stored
\* RED with one red flag.
C26_Witness ==
    /\ Scored
    /\ age_group_num = 2
    /\ \E k \in Answered :
           k.domain = "NEURO" /\ k.from_previous_group /\ k.value_bool
    /\ \E k \in Answered :
           k.domain = "AREA" /\ k.from_previous_group /\ ~Reconciled(k.area)
    /\ \E r \in DomainRows("NEURO") : r.status = RED /\ r.red_flags = 1

=============================================================================
